---- MODULE Spec2Model ----
(***************************************************************************)
(* A model of the natural-language-2-sql repository: the SQL gatekeeper    *)
(* (_validate_select_only, _enforce_allowed_tables), the query tools       *)
(* (run_query, db_query, db_nl2sql_rows) and the catalog exporter          *)
(* (export_db_catalog, main).                                              *)
(*                                                                         *)
(* A text is a sequence of atoms.  An atom is a string standing for the    *)
(* characters it spells: a white-space character, a punctuation character, *)
(* or a run of word characters (a keyword, a name, a number).  Two word    *)
(* atoms next to each other spell one longer word, so the regular          *)
(* expressions' \b is decided between atoms.                               *)
(***************************************************************************)
EXTENDS Integers, Sequences, FiniteSets, TLC

VARIABLES sql, plain, again, fenced, tag,
          allowed, tool, result, acquired, checkedOut, executed,
          entry, schemaArg, includeViews, sampleRows, maskPii, outMd, dbTables,
          pc, effSchema, tables, idx, catalog, raisedBy, inspected,
          fkStage, ruleRows, fkRules, foreignKeys, fkEntries,
          maskStage, maskIn, maskMaxLen, maskOut,
          returned,
          unit, connPc, bodyStep, held, raising, calls,
          inQuery, idle, catNew, catConnected, pools

gateVars == <<plain, again, fenced, tag>>
toolVars == <<allowed, tool, result, acquired, checkedOut, executed>>
toolState == <<tool, result, acquired, checkedOut, executed>>
callVars == <<entry, schemaArg, includeViews, sampleRows, maskPii, outMd, dbTables>>
runVars == <<pc, effSchema, tables, idx, catalog, raisedBy, inspected>>
catVars == <<callVars, runVars>>
fkVars == <<fkStage, ruleRows, fkRules, foreignKeys, fkEntries>>
maskVars == <<maskStage, maskIn, maskMaxLen, maskOut>>
rowVars == <<returned>>
connVars == <<unit, connPc, bodyStep, held, raising, calls>>
poolVars == <<inQuery, idle, catNew, catConnected, pools>>
restVars == <<connVars, poolVars>>
unitVars == <<fkVars, maskVars, rowVars, restVars>>
vars == <<sql, plain, again, fenced, tag,
          allowed, tool, result, acquired, checkedOut, executed,
          entry, schemaArg, includeViews, sampleRows, maskPii, outMd, dbTables,
          pc, effSchema, tables, idx, catalog, raisedBy, inspected,
          unitVars>>

(***************************************************************************)
(* Bounds of the model.                                                    *)
(***************************************************************************)
MaxSemis == 2
MaxLen == 3
MaxTables == 2
MaxSampleRows == 1
MaxRuleRows == 2
MaxFks == 2
MaxTokens == 3
MaxCalls == 3
MaxCallers == 16
MaxCatalogCalls == 3

\* pool_size and max_overflow of build_engine (db.py)
PoolSize == 5
MaxOverflow == 10
ShortTextLen == 4

\* max_text_len's default (export_db_catalog, main, get_db_catalog)
DefaultMaxTextLen == 160

(***************************************************************************)
(* Characters.                                                             *)
(***************************************************************************)
\* Python's str.strip() and the regular expressions' \s
Whitespace == {" ", "\n"}
\* the characters that are neither \w nor \s ("bq" is the backquote character)
Punctuation == {";", "bq", ".", "*", "\"", "[", "]", "(", ")", ","}
\* \w: every atom that is not white space or punctuation is a run of word characters
IsWord(a) == a \notin (Whitespace \cup Punctuation)
\* \d+: the atoms that are runs of digits
IsDigits(a) == a \in {"1", "5", "200"}

\* str.lower(), and the (?i) / re.IGNORECASE of the patterns
Lower(a) ==
    CASE a = "SELECT" -> "select"
      [] a = "Select" -> "select"
      [] a = "LIMIT" -> "limit"
      [] a = "FROM" -> "from"
      [] a = "JOIN" -> "join"
      [] a = "SQL" -> "sql"
      [] a = "MySQL" -> "mysql"
      [] a = "DELETE" -> "delete"
      [] a = "DROP" -> "drop"
      [] a = "INSERT" -> "insert"
      [] a = "INTO" -> "into"
      [] a = "TABLE" -> "table"
      [] a = "ON" -> "on"
      [] a = "Candidates" -> "candidates"
      [] a = "CANDIDATES" -> "candidates"
      [] a = "Salaries" -> "salaries"
      [] OTHER -> a

LowerText(s) == [i \in 1..Len(s) |-> Lower(s[i])]

(***************************************************************************)
(* String helpers, as Python computes them.                                *)
(***************************************************************************)
\* index of the first atom outside C, Len(s)+1 when there is none
FirstNotIn(s, C) ==
    IF \A i \in 1..Len(s) : s[i] \in C THEN Len(s) + 1
    ELSE CHOOSE i \in 1..Len(s) : s[i] \notin C /\ \A j \in 1..(i-1) : s[j] \in C

\* index of the last atom outside C, 0 when there is none
LastNotIn(s, C) ==
    IF \A i \in 1..Len(s) : s[i] \in C THEN 0
    ELSE CHOOSE i \in 1..Len(s) : s[i] \notin C /\ \A j \in (i+1)..Len(s) : s[j] \in C

\* s.strip(chars)
StripChars(s, C) == SubSeq(s, FirstNotIn(s, C), LastNotIn(s, C))
\* s.rstrip(chars)
RStripChars(s, C) == SubSeq(s, 1, LastNotIn(s, C))
\* s.strip()
Strip(s) == StripChars(s, Whitespace)
\* s.rstrip()
RStrip(s) == RStripChars(s, Whitespace)

\* s.split(sep): the pieces between the occurrences of the one-character sep
RECURSIVE Split(_, _)
Split(s, sep) ==
    IF \A i \in 1..Len(s) : s[i] # sep THEN <<s>>
    ELSE LET k == CHOOSE i \in 1..Len(s) : s[i] = sep /\ \A j \in 1..(i-1) : s[j] # sep
         IN  <<SubSeq(s, 1, k - 1)>> \o Split(SubSeq(s, k + 1, Len(s)), sep)

\* sep.join(pieces)
RECURSIVE Join(_, _)
Join(pieces, sep) ==
    IF Len(pieces) = 0 THEN << >>
    ELSE IF Len(pieces) = 1 THEN pieces[1]
    ELSE pieces[1] \o <<sep>> \o Join(Tail(pieces), sep)

\* s.startswith(fence), the fence being three backquotes
StartsWithFence(s) ==
    Len(s) >= 3 /\ s[1] = "bq" /\ s[2] = "bq" /\ s[3] = "bq"

\* s.rfind(fence): the 0-based index of the last occurrence, -1 when there is none
RFindFence(s) ==
    LET at == {i \in 1..(Len(s) - 2) : s[i] = "bq" /\ s[i+1] = "bq" /\ s[i+2] = "bq"}
    IN  IF at = {} THEN -1
        ELSE (CHOOSE i \in at : \A j \in at : j <= i) - 1

(***************************************************************************)
(* _validate_select_only                                                   *)
(***************************************************************************)
\* the language tags whose line is dropped (tools.py line 68)
FenceTags == {<<"sql">>, <<"mysql">>, <<"mariadb">>}

\* StripFences with the tag line compared as written, without .lower()
StripFencesCaseSensitive(s) ==
    IF StartsWithFence(s) /\ RFindFence(s) > 3
    THEN LET lines == Split(Strip(SubSeq(s, 4, RFindFence(s))), "\n")
         IN  IF Strip(lines[1]) \in FenceTags
             THEN Strip(Join(Tail(lines), "\n"))
             ELSE Strip(Join(lines, "\n"))
    ELSE s

\* lines 61-72: the text between the code fence markers, without a tag line
StripFences(s) ==
    IF StartsWithFence(s) /\ RFindFence(s) > 3
    THEN LET lines == Split(Strip(SubSeq(s, 4, RFindFence(s))), "\n")
         IN  IF LowerText(Strip(lines[1])) \in FenceTags
             THEN Strip(Join(Tail(lines), "\n"))
             ELSE Strip(Join(lines, "\n"))
    ELSE s

\* line 78: re.match(r"(?i)^\s*select\b", s)
MatchesSelect(s) ==
    LET k == FirstNotIn(s, Whitespace)
    IN  /\ k <= Len(s)
        /\ Lower(s[k]) = "select"
        /\ (k < Len(s) => ~IsWord(s[k+1]))

\* line 83: re.search(r"\blimit\s+\d+\s*;?\s*$", s, re.IGNORECASE)
EndsWithLimit(s) ==
    \E i \in 1..Len(s) :
       /\ Lower(s[i]) = "limit"
       /\ (i > 1 => ~IsWord(s[i-1]))
       /\ \E j \in (i+2)..Len(s), k \in (i+2)..Len(s) :
             /\ j <= k
             /\ \A m \in (i+1)..(j-1) : s[m] \in Whitespace
             /\ \A m \in j..k : IsDigits(s[m])
             /\ LET rest == SubSeq(s, k + 1, Len(s))
                    a == FirstNotIn(rest, Whitespace)
                IN  \/ a > Len(rest)
                    \/ /\ rest[a] = ";"
                       /\ \A m \in (a+1)..Len(rest) : rest[m] \in Whitespace

\* line 84: the default cap
LimitSuffix == <<" ", "LIMIT", " ", "200", ";">>

\* AddLimit stripping one trailing semicolon only
AddLimitOneSemicolon(s) ==
    LET t == RStrip(s)
    IN  (IF Len(t) > 0 /\ t[Len(t)] = ";" THEN SubSeq(t, 1, Len(t) - 1) ELSE t)
            \o LimitSuffix

\* AddLimit appending the cap without the space before it
AddLimitNoSpace(s) == RStripChars(RStrip(s), {";"}) \o Tail(LimitSuffix)

\* line 84: normalized_sql.rstrip().rstrip(";") + " LIMIT 200;"
AddLimit(s) == RStripChars(RStrip(s), {";"}) \o LimitSuffix

Accept(s) == [ok |-> TRUE, sql |-> s, err |-> "none", name |-> << >>]
Reject(kind, nm) == [ok |-> FALSE, sql |-> << >>, err |-> kind, name |-> nm]

\* lines 55-87
ValidateSelectOnly(s) ==
    LET normalized == Strip(StripFences(s))
    IN  IF ~MatchesSelect(normalized) THEN Reject("only_select", << >>)
        ELSE IF ~EndsWithLimit(normalized) THEN Accept(AddLimit(normalized))
        ELSE Accept(normalized)

(***************************************************************************)
(* The catalog exporter at rest: no export has been asked for.             *)
(***************************************************************************)
CatalogIdle ==
    /\ entry = "none" /\ schemaArg = "" /\ includeViews = FALSE
    /\ sampleRows = 0 /\ maskPii = FALSE /\ outMd = FALSE /\ dbTables = << >>
    /\ pc = "idle" /\ effSchema = "" /\ tables = << >> /\ idx = 0
    /\ catalog = << >> /\ raisedBy = "none" /\ inspected = 0

(***************************************************************************)
(* The foreign-key merge at rest, and every unit that is not the one a     *)
(* specification runs.                                                     *)
(***************************************************************************)
FkIdle ==
    /\ fkStage = "idle" /\ ruleRows = << >> /\ fkRules = << >>
    /\ foreignKeys = << >> /\ fkEntries = << >>

NoValue == [kind |-> "none", text |-> << >>]

MaskIdle ==
    /\ maskStage = "idle" /\ maskIn = NoValue /\ maskMaxLen = 0
    /\ maskOut = [raises |-> "none", value |-> NoValue]

\* no rows have been returned
NotReturned == [raises |-> "none", rows |-> << >>, json |-> FALSE]

RowIdle == returned = NotReturned

\* no unit of work is running and no connection is checked out
ConnIdle ==
    /\ unit = "none" /\ connPc = "idle" /\ bodyStep = 0
    /\ held = 0 /\ raising = "none" /\ calls = 0

\* the pool of ENGINE (db.py line 21) is there, with no connection open
PoolIdle ==
    /\ inQuery = 0 /\ idle = 0 /\ catNew = 0 /\ catConnected = 0 /\ pools = 1

RestIdle == ConnIdle /\ PoolIdle

UnitsIdle == FkIdle /\ MaskIdle /\ RowIdle /\ RestIdle

(***************************************************************************)
(* The texts the gatekeeper is run on.                                     *)
(***************************************************************************)
Semis(n) == [i \in 1..n |-> ";"]
FenceMarker == <<"bq", "bq", "bq">>

\* ; separated statements: lead, leading keyword, body, LIMIT clause, semicolons, tail
GateLeads == {<< >>, <<" ">>}
GateHeads == {<<"SELECT">>, <<"select">>, <<"DELETE">>, <<"SELECT", "x">>}
GateMids == {<< >>, <<" ", "x">>,
             <<" ", "x", ";", " ", "DROP", " ", "TABLE", " ", "x">>}
GateLimits == {<< >>, <<" ", "LIMIT", " ", "5">>, <<"\n", "limit", "\n", "5">>,
               <<"LIMIT", " ", "5">>, <<" ", "LIMIT">>}
GateGaps == {<< >>, <<" ">>}
GateTails == {<< >>, <<"\n">>}

Statements ==
    {lead \o head \o mid \o lim \o gap \o Semis(n) \o tail :
        lead \in GateLeads, head \in GateHeads, mid \in GateMids,
        lim \in GateLimits, gap \in GateGaps, n \in 0..MaxSemis, tail \in GateTails}

\* every text of at most MaxLen atoms over a small alphabet
GateAlphabet == {"SELECT", " ", ";", "bq", "\n", "sql"}
ShortTexts == UNION {[1..n -> GateAlphabet] : n \in 0..MaxLen}

\* a text inside a code fence, inside a fence with a language tag line, and
\* after an opening marker that is never closed
Fence(t) == FenceMarker \o t \o FenceMarker
Wrap(tagLine, t) == FenceMarker \o tagLine \o <<"\n">> \o t \o <<"\n">> \o FenceMarker
Unclosed(t) == FenceMarker \o t

GateInputs ==
    Statements \cup ShortTexts
        \cup {Fence(t) : t \in Statements}
        \cup {Wrap(<<"sql">>, t) : t \in Statements}
        \cup {Unclosed(t) : t \in Statements}

\* the language tag lines a generator writes after the opening marker
TagLines == {<<"sql">>, <<"SQL", " ">>, <<"mariadb">>, <<"tsql">>}

Pending == [ok |-> FALSE, sql |-> << >>, err |-> "pending", name |-> << >>]

(***************************************************************************)
(* The gatekeeper on its own: one pass over the text, a second pass over   *)
(* the first pass's output, and a pass over the text wrapped in a fence.   *)
(***************************************************************************)
GateInit ==
    /\ sql \in GateInputs
    /\ plain = Pending /\ again = Pending /\ fenced = Pending /\ tag = << >>
    /\ allowed = {} /\ tool = "none" /\ result = Pending
    /\ acquired = 0 /\ checkedOut = 0 /\ executed = << >>
    /\ CatalogIdle
    /\ UnitsIdle

Validate ==
    /\ plain = Pending
    /\ plain' = ValidateSelectOnly(sql)
    /\ UNCHANGED <<sql, again, fenced, tag, toolVars, catVars, unitVars>>

Revalidate ==
    /\ plain.ok /\ again = Pending
    /\ again' = ValidateSelectOnly(plain.sql)
    /\ UNCHANGED <<sql, plain, fenced, tag, toolVars, catVars, unitVars>>

ValidateFenced ==
    /\ fenced = Pending
    /\ \E t \in TagLines :
          /\ tag' = t
          /\ fenced' = ValidateSelectOnly(Wrap(t, sql))
    /\ UNCHANGED <<sql, plain, again, toolVars, catVars, unitVars>>

GateNext == Validate \/ Revalidate \/ ValidateFenced

SpecGate == GateInit /\ [][GateNext]_vars

(***************************************************************************)
(* What the claims about the gatekeeper speak of.                          *)
(***************************************************************************)
\* s without its trailing atoms of C
RECURSIVE DropTrailing(_, _)
DropTrailing(s, C) ==
    IF Len(s) > 0 /\ s[Len(s)] \in C
    THEN DropTrailing(SubSeq(s, 1, Len(s) - 1), C)
    ELSE s

\* s without one trailing c
DropOne(s, c) ==
    IF Len(s) > 0 /\ s[Len(s)] = c THEN SubSeq(s, 1, Len(s) - 1) ELSE s

\* s ends with the atoms of t
EndsWith(s, t) ==
    Len(s) >= Len(t) /\ SubSeq(s, Len(s) - Len(t) + 1, Len(s)) = t

\* s ends with a LIMIT <n> clause, optionally followed by a semicolon
HasLimitClause(s) ==
    LET a == DropTrailing(s, Whitespace)
        b == DropTrailing(DropOne(a, ";"), Whitespace)
        c == DropTrailing(b, {"1", "5", "200"})
        d == DropTrailing(c, Whitespace)
    IN  /\ Len(c) < Len(b)
        /\ Len(d) < Len(c)
        /\ Len(d) > 0
        /\ Lower(d[Len(d)]) = "limit"
        /\ (Len(d) > 1 => ~IsWord(d[Len(d) - 1]))

\* the text the checks work on: the fences stripped, the white space trimmed
WorkingText(s) == Strip(StripFences(s))

\* a semicolon that more text follows: the text holds a second statement
HasSecondStatement(s) ==
    \E i \in 1..Len(s) :
        /\ s[i] = ";"
        /\ \E j \in (i+1)..Len(s) : s[j] \notin (Whitespace \cup {";"})

\* C3: a text of several statements is rejected: no text the gatekeeper
\* returns as sanitized SQL holds a second statement.
C3_NoSecondStatement ==
    plain.ok => ~HasSecondStatement(plain.sql)

\* C4 as claimed: an accepted text with no trailing LIMIT clause comes out as
\* the trimmed text with ONE trailing semicolon stripped and the default cap
\* appended (with or without the cap's own semicolon).
C4_OneSemicolonStripped ==
    (plain.ok /\ ~HasLimitClause(WorkingText(sql))) =>
        \/ plain.sql = DropOne(WorkingText(sql), ";") \o <<" ", "LIMIT", " ", "200">>
        \/ plain.sql = DropOne(WorkingText(sql), ";") \o <<" ", "LIMIT", " ", "200", ";">>

\* C4 as amended: an accepted text with no trailing LIMIT clause comes out as
\* the trimmed text with ALL its trailing semicolons stripped and " LIMIT 200;"
\* appended, so it ends with LIMIT 200 and a semicolon; and every sanitized
\* output ends with a LIMIT <n> clause, optionally followed by a semicolon.
C4_LimitInjected ==
    /\ (plain.ok /\ ~HasLimitClause(WorkingText(sql))) =>
          /\ plain.sql = DropTrailing(WorkingText(sql), {";"})
                            \o <<" ", "LIMIT", " ", "200", ";">>
          /\ EndsWith(plain.sql, <<"LIMIT", " ", "200", ";">>)
    /\ plain.ok => HasLimitClause(plain.sql)

\* C4's case: a text ending with semicolons and no LIMIT clause was accepted
C4_Witness ==
    /\ plain.ok
    /\ ~HasLimitClause(WorkingText(sql))
    /\ EndsWith(WorkingText(sql), <<";", ";">>)

\* C5: the gatekeeper is idempotent: a text that already ends with LIMIT <n>
\* comes out as the fence-stripped, trimmed text unchanged, and a second pass
\* over any output accepts it and returns it unchanged.
C5_Idempotent ==
    /\ (plain.ok /\ HasLimitClause(WorkingText(sql))) => plain.sql = WorkingText(sql)
    /\ again # Pending => again = plain

\* C5's case: the first pass appended the cap and the second pass has run
C5_Witness ==
    /\ again.ok
    /\ ~HasLimitClause(WorkingText(sql))
    /\ StartsWithFence(sql)

\* C6 as claimed: a text wrapped in a code fence with any language tag line
\* has the outcome of the unwrapped text.
C6_AnyTagSameOutcome ==
    (plain # Pending /\ fenced # Pending) => fenced = plain

\* C6 as amended: a text that does not itself start with a fence marker,
\* wrapped in a code fence whose tag line is sql, mysql or mariadb (in any
\* letter case, white space around it), has the outcome of the unwrapped text.
C6_KnownTagSameOutcome ==
    (/\ plain # Pending /\ fenced # Pending
     /\ LowerText(Strip(tag)) \in {<<"sql">>, <<"mysql">>, <<"mariadb">>}
     /\ ~StartsWithFence(sql))
        => fenced = plain

\* C6's case: an accepted text, wrapped with an upper-case tag line
C6_Witness ==
    /\ plain.ok /\ fenced.ok
    /\ tag = <<"SQL", " ">>
    /\ HasLimitClause(WorkingText(sql))

(***************************************************************************)
(* _enforce_allowed_tables                                                 *)
(***************************************************************************)
\* the quoting characters of the pattern and of tbl.strip (lines 47 and 50)
QuoteChars == {"bq", "\"", "[", "]"}
\* [\w\.]
IsIdentChar(a) == IsWord(a) \/ a = "."

\* the end of the run of [\w\.] atoms that starts at i (i - 1 when there is none)
RECURSIVE IdentRunEnd(_, _)
IdentRunEnd(s, i) ==
    IF i <= Len(s) /\ IsIdentChar(s[i]) THEN IdentRunEnd(s, i + 1) ELSE i - 1

\* line 47: re.findall(r"(from|join)\s+([q]?[\w\.]+[q]?)", lowered), q the quoting
\* characters: the second group of every match, scanning from position i
RECURSIVE FindTables(_, _)
FindTables(s, i) ==
    IF i > Len(s) THEN << >>
    ELSE IF s[i] \notin {"from", "join"} THEN FindTables(s, i + 1)
    ELSE LET w == i + FirstNotIn(SubSeq(s, i + 1, Len(s)), Whitespace)
             q == IF w <= Len(s) /\ s[w] \in QuoteChars THEN w + 1 ELSE w
             e == IdentRunEnd(s, q)
             z == IF e + 1 <= Len(s) /\ s[e + 1] \in QuoteChars THEN e + 1 ELSE e
         IN  IF w > i + 1 /\ e >= q
             THEN <<SubSeq(s, w, z)>> \o FindTables(s, z + 1)
             ELSE FindTables(s, i + 1)

\* line 50: tbl.strip(quoting characters).split(".")[-1]
BaseName(tbl) ==
    LET parts == Split(StripChars(tbl, QuoteChars), ".")
    IN  parts[Len(parts)]

\* line 51: {t.strip() for t in ALLOWED_TABLES if t}
AllowedNames(allow) == {Strip(t) : t \in {u \in allow : u # << >>}}

\* lines 36-52
EnforceAllowedTables(s, allow) ==
    IF allow = {} THEN Accept(s)
    ELSE LET tokens == FindTables(LowerText(s), 1)
             bad == {i \in 1..Len(tokens) : BaseName(tokens[i]) \notin AllowedNames(allow)}
         IN  IF bad = {} THEN Accept(s)
             ELSE Reject("table_not_allowed",
                         BaseName(tokens[CHOOSE i \in bad : \A j \in bad : i <= j]))

\* one value of every kind a row can hold besides text
OtherValues ==
    {[kind |-> k, text |-> << >>] : k \in {"none", "timedelta", "memoryview", "set", "tuple"}}
    \cup {[kind |-> k, text |-> <<"1">>] : k \in {"bool", "int", "float", "decimal"}}
    \cup {[kind |-> "datetime", text |-> <<"2024-01-02T03:04:05">>],
          [kind |-> "date", text |-> <<"2024-01-02">>],
          [kind |-> "time", text |-> <<"03:04:05">>],
          [kind |-> "bytes", text |-> <<"ab">>],
          [kind |-> "bytearray", text |-> <<"ab">>],
          [kind |-> "uuid", text |-> <<"6f9619ff-8b86-d011-b42d-00c04fc964ff">>]}

\* the rows a statement can return: none, or one row of one column
DriverRows == {<< >>} \cup {<<v>> : v \in OtherValues \cup {[kind |-> "text", text |-> <<"ana">>]}}

\* what the database does with a call: it returns rows, or one of the steps fails
DbOutcomes == {"rows", "connect_fails", "set_fails", "execute_fails"}
DbReplies ==
    {[db |-> "rows", rows |-> r] : r \in DriverRows}
    \cup {[db |-> d, rows |-> << >>] : d \in DbOutcomes \ {"rows"}}

\* line 21: the statement that sets the session time zone
SetTimeZone == <<"SET SESSION time_zone = '+00:00'">>

\* lines 20-22: with ENGINE.connect() as conn: SET, execute; the with block
\* gives the connection back on every way out
Execute(safe, db) ==
    /\ acquired' = IF db = "connect_fails" THEN acquired ELSE acquired + 1
    /\ checkedOut' = checkedOut
    /\ executed' = CASE db = "connect_fails" -> executed
                     [] db = "set_fails" -> executed \o <<SetTimeZone>>
                     [] OTHER -> executed \o <<SetTimeZone, safe>>
    /\ result' = IF db = "rows" THEN Accept(safe) ELSE Reject(db, << >>)

NoExecute == UNCHANGED <<acquired, checkedOut, executed, returned>>

\* lines 23-25: rows = [dict(r._mapping) for r in res], returned as they are
RowMappings(rows) == [raises |-> "none", rows |-> rows, json |-> FALSE]

\* lines 194-196: a value that has an isoformat method is replaced by its text
IsoFormat(v) ==
    IF v.kind \in {"datetime", "date", "time"} THEN [kind |-> "str", text |-> v.text]
    ELSE v

\* the values json.dumps writes without a default function
JsonWritable(v) == v.kind \in {"none", "bool", "int", "float", "str", "text"}

\* line 200: json.dumps(rows, ensure_ascii=False)
JsonDumps(rows) ==
    IF \A i \in 1..Len(rows) : JsonWritable(rows[i])
    THEN [raises |-> "none", rows |-> rows, json |-> TRUE]
    ELSE [raises |-> "TypeError", rows |-> << >>, json |-> FALSE]

\* tools.py lines 15-25
RunQuery ==
    /\ tool = "none"
    /\ tool' = "run_query"
    /\ LET v == ValidateSelectOnly(sql)
       IN  IF ~v.ok THEN result' = v /\ NoExecute
           ELSE \E r \in DbReplies :
                  /\ Execute(v.sql, r.db)
                  /\ returned' = IF r.db = "rows" THEN RowMappings(r.rows)
                                 ELSE NotReturned
    /\ UNCHANGED <<sql, allowed, gateVars, catVars, fkVars, maskVars, restVars>>

\* tools.py lines 139-153
DbQuery ==
    /\ tool = "none"
    /\ tool' = "db_query"
    /\ LET e == EnforceAllowedTables(sql, allowed)
           v == ValidateSelectOnly(sql)
       IN  IF ~e.ok THEN result' = e /\ NoExecute
           ELSE IF ~v.ok THEN result' = v /\ NoExecute
           ELSE \E r \in DbReplies :
                  /\ Execute(v.sql, r.db)
                  /\ returned' = IF r.db = "rows" THEN RowMappings(r.rows)
                                 ELSE NotReturned
    /\ UNCHANGED <<sql, allowed, gateVars, catVars, fkVars, maskVars, restVars>>

\* tools.py lines 156-200; sql is the text the language model generated
\* (lines 167-175, which may fail), stripped at line 175
DbNl2SqlRows ==
    /\ tool = "none"
    /\ tool' = "db_nl2sql_rows"
    /\ \E generated \in BOOLEAN :
          IF ~generated THEN result' = Reject("generation_fails", << >>) /\ NoExecute
          ELSE LET e == EnforceAllowedTables(Strip(sql), allowed)
                   v == ValidateSelectOnly(Strip(sql))
               IN  IF ~e.ok THEN result' = e /\ NoExecute
                   ELSE IF ~v.ok THEN result' = v /\ NoExecute
                   ELSE \E r \in DbReplies :
                          /\ Execute(v.sql, r.db)
                          /\ returned' =
                                IF r.db = "rows"
                                THEN JsonDumps([i \in 1..Len(r.rows) |-> IsoFormat(r.rows[i])])
                                ELSE NotReturned
    /\ UNCHANGED <<sql, allowed, gateVars, catVars, fkVars, maskVars, restVars>>

(***************************************************************************)
(* The texts the tools are called with, and the allow-lists configured.    *)
(***************************************************************************)
QueryPrefixes == {<<"SELECT", " ", "*", " ">>, <<"select", " ", "x", " ">>,
                  <<"DELETE", " ">>}
FromKeywords == {<<"FROM", " ">>, <<"from", "\n">>, <<"FROM">>}
Identifiers == {<<"candidates">>, <<"salaries">>, <<"Candidates">>,
                <<"db", ".", "salaries">>,
                <<"bq", "salaries", "bq">>,
                <<"bq", "db", ".", "candidates", "bq">>,
                <<"bq", "db", "bq", ".", "bq", "salaries", "bq">>}
FromParts == {<< >>} \cup {k \o t : k \in FromKeywords, t \in Identifiers}
JoinParts == {<< >>} \cup
    {<<" ", "JOIN", " ">> \o t \o <<" ", "ON", " ", "x">> :
        t \in {<<"salaries">>, <<"interviews">>, <<"db", ".", "candidates">>}}
QuerySuffixes == {<< >>, <<" ", "LIMIT", " ", "5">>,
                  <<";", " ", "DROP", " ", "TABLE", " ", "salaries">>}

QueryInputs ==
    {p \o f \o j \o x :
        p \in QueryPrefixes, f \in FromParts, j \in JoinParts, x \in QuerySuffixes}

AllowLists == {{}, {<<"candidates">>, <<"interviews">>}, {<<"candidates">>},
               {<<"Candidates">>, <<" ", "salaries">>}}

Init ==
    /\ sql \in QueryInputs
    /\ allowed \in AllowLists
    /\ tool = "none" /\ result = Pending
    /\ acquired = 0 /\ checkedOut = 0 /\ executed = << >>
    /\ plain = Pending /\ again = Pending /\ fenced = Pending /\ tag = << >>
    /\ CatalogIdle
    /\ UnitsIdle

Next == RunQuery \/ DbQuery \/ DbNl2SqlRows

Spec == Init /\ [][Next]_vars

(***************************************************************************)
(* What the claims about the allow-list and the tools speak of.            *)
(***************************************************************************)
\* the names of the dot-separated parts of the identifier that starts at i,
\* each part a word or a word between quoting characters
RECURSIVE IdentifierParts(_, _)
IdentifierParts(s, i) ==
    LET quoted == /\ i + 2 <= Len(s)
                  /\ s[i] \in QuoteChars /\ IsWord(s[i+1]) /\ s[i+2] \in QuoteChars
        bare == i <= Len(s) /\ IsWord(s[i])
        e == IF quoted THEN i + 2 ELSE i
        nm == IF quoted THEN s[i+1] ELSE s[i]
    IN  IF ~(quoted \/ bare) THEN << >>
        ELSE IF e + 1 <= Len(s) /\ s[e+1] = "."
             THEN <<nm>> \o IdentifierParts(s, e + 2)
             ELSE <<nm>>

\* the base table names of the FROM <ident> and JOIN <ident> of a text
ReferencedTables(s) ==
    {Lower(IdentifierParts(s, w)[Len(IdentifierParts(s, w))]) :
        w \in {v \in 3..Len(s) :
                 /\ IdentifierParts(s, v) # << >>
                 /\ s[v-1] \in Whitespace
                 /\ \E i \in 1..(v-2) :
                       /\ Lower(s[i]) \in {"from", "join"}
                       /\ \A m \in (i+1)..(v-1) : s[m] \in Whitespace}}

\* the referenced tables that are on the allow-list in no letter case
Offending(s, allow) ==
    {b \in ReferencedTables(s) : \A t \in allow : LowerText(Strip(t)) # <<b>>}

\* the leading keyword of a text
LeadingKeyword(s) ==
    IF FirstNotIn(s, Whitespace) > Len(s) THEN ""
    ELSE Lower(s[FirstNotIn(s, Whitespace)])

ValidationErrors == {"only_select", "table_not_allowed"}

\* C1: run_query applies the allow-list check: a text with a FROM or JOIN of
\* a table outside a non-empty allow-list is rejected with a validation error
\* and nothing is executed against the database.
C1_RunQueryEnforcesAllowList ==
    (tool = "run_query" /\ allowed # {} /\ Offending(sql, allowed) # {}) =>
        /\ result.err \in ValidationErrors
        /\ executed = << >>

\* C2: a text whose leading keyword is not SELECT is rejected by run_query and
\* by db_query with the statement-kind error and no other, and no connection
\* is acquired.
C2_NonSelectIsStatementKindError ==
    (tool \in {"run_query", "db_query"} /\ LeadingKeyword(sql) # "select") =>
        /\ result.err = "only_select"
        /\ acquired = 0

\* C7: with a non-empty allow-list the check rejects a text that has a FROM or
\* JOIN of a table outside it, naming that table; with an empty allow-list it
\* rejects nothing.
C7_RejectsNamingOffendingTable ==
    tool = "db_query" =>
        /\ (allowed # {} /\ Offending(sql, allowed) # {}) =>
              /\ result.err = "table_not_allowed"
              /\ result.name \in {<<b>> : b \in Offending(sql, allowed)}
        /\ allowed = {} => result.err # "table_not_allowed"

(***************************************************************************)
(* The catalog exporter: export_db_catalog and the command line's main.    *)
(***************************************************************************)
\* json_fallback (lines 65-79): the kind of value returned for a value of a
\* kind; a memoryview has no decode method, so line 74 raises AttributeError
JsonFallback(kind) ==
    CASE kind \in {"datetime", "date", "time"} -> "str"
      [] kind = "timedelta" -> "float"
      [] kind = "decimal" -> "float"
      [] kind \in {"bytes", "bytearray"} -> "str"
      [] kind = "memoryview" -> "AttributeError"
      [] kind \in {"set", "tuple"} -> "list"
      [] kind = "uuid" -> "str"
      [] OTHER -> "str"

\* mask_pii_value (lines 88-102): the kind of value returned, "TypeError" when
\* the pattern substitution of line 95 is handed a value that is no string
MaskPiiValue(kind) ==
    IF kind = "none" THEN "none"
    ELSE IF kind \in {"int", "float", "bool", "decimal"} THEN kind
    ELSE IF JsonFallback(kind) \in {"str", "AttributeError"} THEN JsonFallback(kind)
    ELSE "TypeError"

\* guess_schema_from_url (lines 44-50): the current database, None ("") when
\* the connection reports none or the query fails
GuessSchemaFromUrl(current) == IF current = "error" THEN "" ELSE current

\* what can go wrong with one table: the inspector raises a SQLAlchemyError,
\* the sample query raises one, or a sampled column holds a time interval
TableFaults == {"none", "inspector_error", "sample_query_error", "timedelta_value"}

TableEntry(t, sample) == [name |-> t, kind |-> "table", sample |-> sample]
ErrorEntry(t) == [name |-> t, kind |-> "error", sample |-> "absent"]

\* build_table_dict (lines 129-220): the table's entry, or the exception raised
BuildTableDict(t, fault, n, mask) ==
    IF fault = "inspector_error"
    THEN [raises |-> "SQLAlchemyError", tbl |-> ErrorEntry(t)]
    ELSE IF ~(n > 0) THEN [raises |-> "none", tbl |-> TableEntry(t, "absent")]
    ELSE IF fault = "sample_query_error"
    THEN [raises |-> "none", tbl |-> TableEntry(t, "empty")]
    ELSE LET kind == IF fault = "timedelta_value" THEN "timedelta" ELSE "text"
             v == IF mask THEN MaskPiiValue(kind) ELSE JsonFallback(kind)
         IN  IF v \in {"TypeError", "AttributeError"}
             THEN [raises |-> v, tbl |-> ErrorEntry(t)]
             ELSE [raises |-> "none", tbl |-> TableEntry(t, "rows")]

\* to_markdown (lines 223-272): line 234 reads t["columns"], which an error
\* entry does not have
ToMarkdown(cat) ==
    IF \E i \in 1..Len(cat) : cat[i].kind = "error" THEN "KeyError" ELSE "text"

\* the tables and the views of the database, in the order it reports them
TableNames == <<(<<"candidates">>), (<<"salaries">>), (<<"interviews">>)>>
ViewNames == <<(<<"v_candidates">>)>>
CatalogAllowLists == {{}, {<<"candidates">>},
                      {<<"candidates">>, <<"interviews">>, <<"v_candidates">>}}

CatalogInit ==
    /\ entry \in {"export_db_catalog", "main"}
    /\ schemaArg \in {"", "verx_rh"}
    /\ includeViews \in BOOLEAN
    /\ sampleRows \in 0..MaxSampleRows
    /\ maskPii \in BOOLEAN
    /\ outMd \in (IF entry = "main" THEN BOOLEAN ELSE {FALSE})
    /\ dbTables \in {SubSeq(TableNames, 1, n) : n \in 0..MaxTables}
    /\ allowed \in CatalogAllowLists
    /\ pc = "start" /\ effSchema = "" /\ tables = << >> /\ idx = 0
    /\ catalog = << >> /\ raisedBy = "none" /\ inspected = 0
    /\ sql = << >> /\ plain = Pending /\ again = Pending /\ fenced = Pending
    /\ tag = << >> /\ tool = "none" /\ result = Pending
    /\ acquired = 0 /\ checkedOut = 0 /\ executed = << >>
    /\ UnitsIdle

Raise(step) ==
    /\ pc' = "raised" /\ raisedBy' = step
    /\ UNCHANGED <<effSchema, tables, idx, catalog, inspected>>

\* lines 300-302 and 362-364: the schema given, else the current database
ResolveSchema ==
    /\ pc = "start"
    /\ \E current \in {"verx_rh", "", "error"} :
          LET eff == IF schemaArg # "" THEN schemaArg ELSE GuessSchemaFromUrl(current)
          IN  IF eff = "" THEN Raise("schema")
              ELSE /\ effSchema' = eff /\ pc' = "tables"
                   /\ UNCHANGED <<tables, idx, catalog, raisedBy, inspected>>
    /\ UNCHANGED <<sql, gateVars, toolVars, callVars, unitVars>>

\* lines 304-307 and 366-370: inspect(engine), insp.get_table_names
GetTableNames ==
    /\ pc = "tables"
    /\ \E fails \in BOOLEAN :
          IF fails THEN Raise("get_table_names")
          ELSE /\ tables' = dbTables
               /\ pc' = IF includeViews THEN "views" ELSE "rules"
               /\ UNCHANGED <<effSchema, idx, catalog, raisedBy, inspected>>
    /\ UNCHANGED <<sql, gateVars, toolVars, callVars, unitVars>>

\* lines 308-309 and 373-375: insp.get_view_names
GetViewNames ==
    /\ pc = "views"
    /\ \E fails \in BOOLEAN :
          IF fails THEN Raise("get_view_names")
          ELSE /\ tables' = tables \o ViewNames
               /\ pc' = "rules"
               /\ UNCHANGED <<effSchema, idx, catalog, raisedBy, inspected>>
    /\ UNCHANGED <<sql, gateVars, toolVars, callVars, unitVars>>

\* lines 312 and 378: load_fk_rules (lines 105-123), which catches nothing
LoadFkRules ==
    /\ pc = "rules"
    /\ \E fails \in BOOLEAN :
          IF fails THEN Raise("load_fk_rules")
          ELSE /\ pc' = "loop" /\ idx' = 1
               /\ UNCHANGED <<effSchema, tables, catalog, raisedBy, inspected>>
    /\ UNCHANGED <<sql, gateVars, toolVars, callVars, unitVars>>

\* line 318: the tables export_db_catalog builds; main (line 384) builds every one
Builds(t) == entry = "main" \/ (allowed # {} /\ t \in allowed)

\* lines 316-339 and 382-400: one turn of the loop over the tables
InspectTable ==
    /\ pc = "loop" /\ idx <= Len(tables)
    /\ IF ~Builds(tables[idx])
       THEN /\ idx' = idx + 1
            /\ UNCHANGED <<pc, effSchema, tables, catalog, raisedBy, inspected>>
       ELSE \E fault \in TableFaults :
              LET b == BuildTableDict(tables[idx], fault, sampleRows, maskPii)
              IN  /\ inspected' = inspected + 1
                  /\ IF b.raises \in {"none", "SQLAlchemyError"}
                     THEN /\ catalog' = Append(catalog, b.tbl)
                          /\ idx' = idx + 1
                          /\ UNCHANGED <<pc, effSchema, tables, raisedBy>>
                     ELSE /\ pc' = "raised" /\ raisedBy' = "build_table_dict"
                          /\ UNCHANGED <<effSchema, tables, idx, catalog>>
    /\ UNCHANGED <<sql, gateVars, toolVars, callVars, unitVars>>

\* line 341: export_db_catalog returns the catalog as JSON
ReturnCatalog ==
    /\ entry = "export_db_catalog"
    /\ pc = "loop" /\ idx > Len(tables)
    /\ pc' = "returned"
    /\ UNCHANGED <<effSchema, tables, idx, catalog, raisedBy, inspected>>
    /\ UNCHANGED <<sql, gateVars, toolVars, callVars, unitVars>>

\* lines 402-414: main writes the JSON and, when asked, the Markdown
WriteOutputs ==
    /\ entry = "main"
    /\ pc = "loop" /\ idx > Len(tables)
    /\ IF outMd /\ ToMarkdown(catalog) = "KeyError"
       THEN Raise("to_markdown")
       ELSE /\ pc' = "returned"
            /\ UNCHANGED <<effSchema, tables, idx, catalog, raisedBy, inspected>>
    /\ UNCHANGED <<sql, gateVars, toolVars, callVars, unitVars>>

CatalogNext ==
    \/ ResolveSchema \/ GetTableNames \/ GetViewNames \/ LoadFkRules
    \/ InspectTable \/ ReturnCatalog \/ WriteOutputs

SpecCatalog == CatalogInit /\ [][CatalogNext]_vars

\* the names of the catalog's entries, in order
EntryNames(cat) == [i \in 1..Len(cat) |-> cat[i].name]

\* the tables of ts that are on the allow-list, in order
RECURSIVE Restrict(_, _)
Restrict(ts, allow) ==
    IF ts = << >> THEN << >>
    ELSE (IF Head(ts) \in allow THEN <<Head(ts)>> ELSE << >>) \o Restrict(Tail(ts), allow)

\* C8: the exporter restricts the enumerated tables to the allow-list only
\* when the allow-list is not empty; with an empty allow-list every enumerated
\* table (and view) has an entry in the catalog returned.
C8_EmptyAllowListNoRestriction ==
    (entry = "export_db_catalog" /\ pc = "returned") =>
        EntryNames(catalog) = IF allowed = {} THEN tables ELSE Restrict(tables, allowed)

\* the tables a build is to inspect: all of them for main, those on the
\* allow-list for export_db_catalog (the empty allow-list is C8's matter)
Candidates == IF entry = "main" THEN tables ELSE Restrict(tables, allowed)

\* C9: no failure raised while one table is inspected, of whatever kind
\* (failures while sample rows are captured or masked included), ends the
\* build: the build never stops inside build_table_dict, and the catalog
\* produced has one entry for every candidate table, in the order of enumeration.
C9_PerTableBestEffort ==
    /\ raisedBy # "build_table_dict"
    /\ (pc = "loop" /\ idx > Len(tables) /\ (entry = "main" \/ allowed # {}))
          => EntryNames(catalog) = Candidates

\* C10: an export fails only when the schema cannot be determined, before any
\* table is enumerated or inspected; once the schema is determined the export
\* returns a catalog.
C10_FatalOnlyOnSchema ==
    (entry = "export_db_catalog" /\ pc = "raised") =>
        /\ raisedBy = "schema"
        /\ tables = << >> /\ inspected = 0

(***************************************************************************)
(* Foreign keys: load_fk_rules and the merge of build_table_dict.          *)
(* "none" stands for Python's None.                                        *)
(***************************************************************************)
\* the rows INFORMATION_SCHEMA.REFERENTIAL_CONSTRAINTS can return
RuleRows ==
    [CONSTRAINT_NAME : {"fk_a", "fk_b"},
     UPDATE_RULE : {"RESTRICT", "CASCADE"},
     DELETE_RULE : {"RESTRICT", "SET NULL"}]

\* the foreign keys the inspector can report; a constraint may have no name,
\* and the options may lack onupdate or ondelete
InspectedFks ==
    [name : {"none", "fk_a", "fk_c"},
     onupdate : {"none", "CASCADE"},
     ondelete : {"none", "NO ACTION"}]

SeqsUpTo(S, n) == UNION {[1..k -> S] : k \in 0..n}

\* the dictionary built at lines 117-123: a later row replaces an earlier one
\* of the same constraint name
RECURSIVE FkRulesOf(_)
FkRulesOf(rows) ==
    IF rows = << >> THEN << >>
    ELSE LET r == rows[Len(rows)]
             rest == FkRulesOf(SubSeq(rows, 1, Len(rows) - 1))
             one == [on_update |-> r.UPDATE_RULE, on_delete |-> r.DELETE_RULE]
         IN  [n \in (DOMAIN rest) \cup {r.CONSTRAINT_NAME} |->
                 IF n = r.CONSTRAINT_NAME THEN one ELSE rest[n]]

\* lines 171-179: the entry as the inspector reports the foreign key
FkEntry(fk) == [name |-> fk.name, on_update |-> fk.onupdate, on_delete |-> fk.ondelete]

\* the merge with every field taken from the rules, whatever the inspector said
MergeFkRulesOverriding(e, rules) ==
    IF DOMAIN rules # {} /\ e.name \in DOMAIN rules
    THEN [e EXCEPT !.on_update = rules[e.name].on_update,
                   !.on_delete = rules[e.name].on_delete]
    ELSE e

\* lines 181-185: a field the inspector left empty is taken from the rules
MergeFkRules(e, rules) ==
    IF DOMAIN rules # {} /\ e.name \in DOMAIN rules
    THEN [e EXCEPT !.on_update = IF e.on_update = "none"
                                 THEN rules[e.name].on_update ELSE @,
                   !.on_delete = IF e.on_delete = "none"
                                 THEN rules[e.name].on_delete ELSE @]
    ELSE e

FkInit ==
    /\ fkStage = "start"
    /\ ruleRows \in SeqsUpTo(RuleRows, MaxRuleRows)
    /\ foreignKeys \in SeqsUpTo(InspectedFks, MaxFks)
    /\ fkRules = << >> /\ fkEntries = << >>
    /\ sql = << >> /\ plain = Pending /\ again = Pending /\ fenced = Pending
    /\ tag = << >> /\ allowed = {} /\ tool = "none" /\ result = Pending
    /\ acquired = 0 /\ checkedOut = 0 /\ executed = << >>
    /\ CatalogIdle /\ MaskIdle /\ RowIdle /\ RestIdle

\* load_fk_rules (lines 105-123)
LoadRules ==
    /\ fkStage = "start"
    /\ fkRules' = FkRulesOf(ruleRows)
    /\ fkStage' = "loaded"
    /\ UNCHANGED <<ruleRows, foreignKeys, fkEntries>>
    /\ UNCHANGED <<sql, gateVars, toolVars, catVars, maskVars, rowVars, restVars>>

\* the loop of lines 170-186 over the table's foreign keys
MergeForeignKeys ==
    /\ fkStage = "loaded"
    /\ fkEntries' = [i \in 1..Len(foreignKeys) |->
                        MergeFkRules(FkEntry(foreignKeys[i]), fkRules)]
    /\ fkStage' = "merged"
    /\ UNCHANGED <<ruleRows, fkRules, foreignKeys>>
    /\ UNCHANGED <<sql, gateVars, toolVars, catVars, maskVars, rowVars, restVars>>

FkNext == LoadRules \/ MergeForeignKeys

SpecFk == FkInit /\ [][FkNext]_vars

\* the values the rule rows report for a constraint name and a field
RuleValuesFor(n, field) ==
    {IF field = "on_update" THEN ruleRows[i].UPDATE_RULE ELSE ruleRows[i].DELETE_RULE :
        i \in {j \in 1..Len(ruleRows) : ruleRows[j].CONSTRAINT_NAME = n}}

Primary(i, field) ==
    IF field = "on_update" THEN foreignKeys[i].onupdate ELSE foreignKeys[i].ondelete

\* C11: after the merge there is one entry per foreign key, in order and with
\* its name, and for each of on_update and on_delete: a value the inspector
\* reported is kept; a field the inspector left empty takes a value the rule
\* rows report for the constraint's name when they have one (the only one when
\* the name has a single row); with no row for the name the field stays empty.
C11_FkRuleMerge ==
    fkStage = "merged" =>
        /\ Len(fkEntries) = Len(foreignKeys)
        /\ \A i \in 1..Len(foreignKeys) :
              /\ fkEntries[i].name = foreignKeys[i].name
              /\ \A field \in {"on_update", "on_delete"} :
                    LET got == IF field = "on_update" THEN fkEntries[i].on_update
                               ELSE fkEntries[i].on_delete
                        offered == RuleValuesFor(foreignKeys[i].name, field)
                    IN  IF Primary(i, field) # "none" THEN got = Primary(i, field)
                        ELSE IF offered # {} THEN got \in offered
                        ELSE got = "none"

\* C11's case: a merged table with one foreign key whose reported on_update
\* differs from the rule of its name and is kept, and one whose on_delete was
\* empty and is filled from the rules
C11_Witness ==
    /\ fkStage = "merged"
    /\ \E i \in 1..Len(foreignKeys) :
          /\ foreignKeys[i].onupdate = "CASCADE"
          /\ foreignKeys[i].name \in DOMAIN fkRules
          /\ fkRules[foreignKeys[i].name].on_update = "RESTRICT"
          /\ fkEntries[i].on_update = "CASCADE"
    /\ \E i \in 1..Len(foreignKeys) :
          /\ foreignKeys[i].ondelete = "none"
          /\ fkEntries[i].on_delete = "SET NULL"

(***************************************************************************)
(* Sample values and the PII masker.  A value is a record of its Python    *)
(* kind and, for a text, of its tokens; a string produced by the program   *)
(* is a sequence of characters.                                            *)
(***************************************************************************)
\* the characters a token spells
Chars(tok) ==
    CASE tok = "ana" ->
            <<"a", "n", "a">>
      [] tok = "a@b.co" ->
            <<"a", "@", "b", ".", "c", "o">>
      [] tok = "123.456.789-09" ->
            <<"1", "2", "3", ".", "4", "5", "6", ".", "7", "8", "9", "-", "0", "9">>
      [] tok = "91234-5678" ->
            <<"9", "1", "2", "3", "4", "-", "5", "6", "7", "8">>
      [] tok = "[email]" ->
            <<"[", "e", "m", "a", "i", "l", "]">>
      [] tok = "[cpf]" ->
            <<"[", "c", "p", "f", "]">>
      [] tok = "[phone]" ->
            <<"[", "p", "h", "o", "n", "e", "]">>
      [] tok = "2024-01-02T03:04:05" ->
            <<"2", "0", "2", "4", "-", "0", "1", "-", "0", "2", "T", "0", "3", ":", "0", "4", ":", "0", "5">>
      [] tok = "2024-01-02" ->
            <<"2", "0", "2", "4", "-", "0", "1", "-", "0", "2">>
      [] tok = "03:04:05" ->
            <<"0", "3", ":", "0", "4", ":", "0", "5">>
      [] tok = "ab" ->
            <<"a", "b">>
      [] tok = "6f9619ff-8b86-d011-b42d-00c04fc964ff" ->
            <<"6", "f", "9", "6", "1", "9", "f", "f", "-", "8", "b", "8", "6", "-", "d", "0", "1", "1", "-", "b", "4", "2", "d", "-", "0", "0", "c", "0", "4", "f", "c", "9", "6", "4", "f", "f">>
      [] OTHER -> <<tok>>

RECURSIVE Expand(_)
Expand(toks) == IF toks = << >> THEN << >> ELSE Chars(Head(toks)) \o Expand(Tail(toks))

\* the tokens of a text: words, white space, and values the patterns of lines
\* 83-85 match (an e-mail address, a CPF number, a telephone number)
WordTokens == {"ana", "a@b.co", "123.456.789-09", "91234-5678"}
TextTokens == WordTokens \cup Whitespace

\* the texts of the model keep two word tokens apart, so that each pattern's
\* match is one whole token
Texts ==
    {t \in SeqsUpTo(TextTokens, MaxTokens) :
        \A i \in 1..(Len(t) - 1) : ~(t[i] \in WordTokens /\ t[i + 1] \in WordTokens)}

SampleValues == OtherValues \cup {[kind |-> "text", text |-> t] : t \in Texts}

Returned(v) == [raises |-> "none", value |-> v]
Raised(e) == [raises |-> e, value |-> NoValue]

\* json_fallback (lines 65-79) on a value: isoformat, total_seconds, float,
\* decode, list and str keep the value's text and change its kind
JsonFallbackValue(v) ==
    IF JsonFallback(v.kind) = "AttributeError" THEN Raised("AttributeError")
    ELSE Returned([kind |-> JsonFallback(v.kind), text |-> v.text])

\* pattern.sub(placeholder, s), lines 95-97, on a text whose matches are tokens
Sub(toks, match, placeholder) ==
    [i \in 1..Len(toks) |-> IF toks[i] = match THEN placeholder ELSE toks[i]]

\* re.sub(r"\s+", " ", s), line 99
RECURSIVE CollapseSpace(_)
CollapseSpace(s) ==
    IF s = << >> THEN << >>
    ELSE IF Head(s) \in Whitespace
    THEN <<" ">> \o CollapseSpace(SubSeq(s, FirstNotIn(s, Whitespace), Len(s)))
    ELSE <<Head(s)>> \o CollapseSpace(Tail(s))

\* lines 100-101: a text longer than max_len is cut and marked with an
\* ellipsis, one character written "..." here
Truncate(s, maxLen) ==
    IF maxLen # 0 /\ Len(s) > maxLen THEN SubSeq(s, 1, maxLen) \o <<"...">> ELSE s

\* mask_pii_value (lines 88-102); a max_len of None counts as 0
MaskPii(v, maxLen) ==
    IF v.kind = "none" THEN Returned(v)
    ELSE IF v.kind \in {"int", "float", "bool", "decimal"} THEN Returned(v)
    ELSE LET s == JsonFallbackValue(v)
         IN  IF s.raises # "none" THEN s
             ELSE IF s.value.kind # "str" THEN Raised("TypeError")
             ELSE LET masked == Sub(Sub(Sub(s.value.text, "a@b.co", "[email]"),
                                        "123.456.789-09", "[cpf]"),
                                    "91234-5678", "[phone]")
                      flat == Strip(CollapseSpace(Expand(masked)))
                  IN  Returned([kind |-> "str", text |-> Truncate(flat, maxLen)])

MaskInit ==
    /\ maskStage = "start"
    /\ maskIn \in SampleValues
    /\ maskMaxLen \in {0, ShortTextLen, DefaultMaxTextLen}
    /\ maskOut = Returned(NoValue)
    /\ sql = << >> /\ plain = Pending /\ again = Pending /\ fenced = Pending
    /\ tag = << >> /\ allowed = {} /\ tool = "none" /\ result = Pending
    /\ acquired = 0 /\ checkedOut = 0 /\ executed = << >>
    /\ CatalogIdle /\ FkIdle /\ RowIdle /\ RestIdle

\* one call of mask_pii_value, as _norm_row (lines 209-212) makes it
MaskValue ==
    /\ maskStage = "start"
    /\ maskOut' = MaskPii(maskIn, maskMaxLen)
    /\ maskStage' = "done"
    /\ UNCHANGED <<maskIn, maskMaxLen>>
    /\ UNCHANGED <<sql, gateVars, toolVars, catVars, fkVars, rowVars, restVars>>

MaskNext == MaskValue

SpecMask == MaskInit /\ [][MaskNext]_vars

\* C12: the masker never raises, whatever the kind of the value and the
\* maximum length, and returns null, numeric and boolean values unchanged.
C12_MaskerTotal ==
    maskStage = "done" =>
        /\ maskOut.raises = "none"
        /\ maskIn.kind \in {"none", "bool", "int", "float", "decimal"}
              => maskOut.value = maskIn

\* C13: every value of every row a query tool returns (run_query's and
\* db_query's rows, the JSON array of db_nl2sql_rows) is a JSON-safe scalar,
\* no driver-native value is returned, and serializing the rows never fails.
C13_RowsAreJsonSafe ==
    /\ returned.raises = "none"
    /\ \A i \in 1..Len(returned.rows) : JsonWritable(returned.rows[i])

(***************************************************************************)
(* Connections: the units of work that check a connection out, step by     *)
(* step.  Each is a with engine.connect() block: the query tools           *)
(* (tools.py lines 20-23, 148-151, 185-197), guess_schema_from_url (lines  *)
(* 47-48), load_fk_rules (lines 115-116) and the sample of                 *)
(* build_table_dict (lines 200-216).                                       *)
(***************************************************************************)
Units == {"query", "schema_probe", "rule_load", "sample_fetch"}

\* the statements inside the with block: SET, execute, rows for a query;
\* one execute for the probe and for the rules; get_columns, execute and
\* _norm_row for the sample
BodySteps(u) == IF u \in {"query", "sample_fetch"} THEN 3 ELSE 1

\* the exception a failing statement of the body raises
BodyError(u, n) ==
    IF u = "sample_fetch" /\ n = 3 THEN "TypeError" ELSE "SQLAlchemyError"

\* a with block that gives the connection back only when its body ends well
ReleaseOnSuccess(h, exc) == IF exc = "none" THEN h - 1 ELSE h

\* Connection.__exit__ of the with block: the connection goes back to the
\* pool, whether the body ended well or raised
Release(h, exc) == h - 1

ConnInit ==
    /\ ConnIdle
    /\ sql = << >> /\ plain = Pending /\ again = Pending /\ fenced = Pending
    /\ tag = << >> /\ allowed = {} /\ tool = "none" /\ result = Pending
    /\ acquired = 0 /\ checkedOut = 0 /\ executed = << >>
    /\ CatalogIdle /\ FkIdle /\ MaskIdle /\ RowIdle /\ PoolIdle

ConnOthers == <<sql, gateVars, toolVars, catVars, fkVars, maskVars, rowVars, poolVars>>

\* a unit of work is called; a query is validated before anything else
StartUnit ==
    /\ connPc = "idle" /\ calls < MaxCalls
    /\ \E u \in Units :
          /\ unit' = u
          /\ connPc' = IF u = "query" THEN "validate" ELSE "connect"
    /\ bodyStep' = 0 /\ raising' = "none"
    /\ UNCHANGED <<held, calls, ConnOthers>>

\* tools.py lines 18, 144-146, 181-182: a rejected text raises ValueError
\* before the with block is entered
ValidateUnit ==
    /\ connPc = "validate"
    /\ \E ok \in BOOLEAN :
          IF ok THEN connPc' = "connect" /\ raising' = raising
          ELSE connPc' = "done" /\ raising' = "ValueError"
    /\ UNCHANGED <<unit, bodyStep, held, calls, ConnOthers>>

\* engine.connect(): a connection is checked out, or the call raises
Connect ==
    /\ connPc = "connect"
    /\ \E ok \in BOOLEAN :
          IF ok THEN /\ held' = held + 1 /\ connPc' = "body" /\ bodyStep' = 1
                     /\ raising' = raising
          ELSE /\ connPc' = "done" /\ raising' = "OperationalError"
               /\ UNCHANGED <<held, bodyStep>>
    /\ UNCHANGED <<unit, calls, ConnOthers>>

\* one statement of the body: it ends well, or raises and leaves the block
BodyStep ==
    /\ connPc = "body"
    /\ \E ok \in BOOLEAN :
          IF ok THEN /\ raising' = raising
                     /\ IF bodyStep = BodySteps(unit)
                        THEN connPc' = "exit" /\ bodyStep' = bodyStep
                        ELSE connPc' = "body" /\ bodyStep' = bodyStep + 1
          ELSE /\ raising' = BodyError(unit, bodyStep)
               /\ connPc' = "exit" /\ bodyStep' = bodyStep
    /\ UNCHANGED <<unit, held, calls, ConnOthers>>

\* the with block is left, by return or by exception
ExitWith ==
    /\ connPc = "exit"
    /\ held' = Release(held, raising)
    /\ connPc' = "done"
    /\ UNCHANGED <<unit, bodyStep, raising, calls, ConnOthers>>

\* the call is over: it returned, or its exception went to the caller (or
\* was caught: export_db_catalog.py lines 49-50 and 217-218)
FinishUnit ==
    /\ connPc = "done"
    /\ connPc' = "idle" /\ calls' = calls + 1
    /\ UNCHANGED <<unit, bodyStep, held, raising, ConnOthers>>

ConnNext ==
    \/ StartUnit \/ ValidateUnit \/ Connect \/ BodyStep \/ ExitWith \/ FinishUnit

\* the code runs on and the database answers every statement in the end
SpecConn == ConnInit /\ [][ConnNext]_vars /\ WF_vars(ConnNext)

\* C14: every unit of work that checks a connection out gives it back on
\* every way out (return, a failed SET, an exception in mid-query): a
\* connection checked out is always checked in later, and whenever a call is
\* over or none is running, after any number of calls, none is checked out.
C14_ConnectionReleased ==
    /\ [](connPc \in {"idle", "done"} => held = 0)
    /\ [](held > 0 => <>(held = 0))

\* C14's case: a second or later call is over, a query whose execute raised
\* inside the with block, and no connection is checked out
C14_Witness ==
    /\ connPc = "done" /\ calls >= 1
    /\ unit = "query" /\ bodyStep = 2 /\ raising = "SQLAlchemyError"
    /\ held = 0

\* C15: the command line ends with a non-zero status when the schema cannot be
\* determined; with the schema determined and the tables gone through, it
\* ends with status zero whatever the outputs asked for, also when tables
\* are recorded as error entries: writing the outputs, the Markdown form
\* included, never fails.  (What enumeration and inspection may raise is the
\* matter of C10 and C9.)
C15_MainExitStatus ==
    entry = "main" =>
        /\ (pc = "raised" /\ tables = << >> /\ inspected = 0 /\ effSchema = "")
              => raisedBy = "schema"
        /\ ~(pc = "raised" /\ raisedBy = "to_markdown")

(***************************************************************************)
(* Pools: calls of run_query / db_query and of get_db_catalog running at   *)
(* the same time.  The query tools draw from the pool of ENGINE;           *)
(* export_db_catalog (line 298) makes an engine, and so a pool, of its own *)
(* at every call.                                                          *)
(***************************************************************************)
PoolInit ==
    /\ PoolIdle
    /\ sql = << >> /\ plain = Pending /\ again = Pending /\ fenced = Pending
    /\ tag = << >> /\ allowed = {} /\ tool = "none" /\ result = Pending
    /\ acquired = 0 /\ checkedOut = 0 /\ executed = << >>
    /\ CatalogIdle /\ FkIdle /\ MaskIdle /\ RowIdle /\ ConnIdle

PoolOthers == <<sql, gateVars, toolVars, catVars, fkVars, maskVars, rowVars, connVars>>

\* the calls in progress
InFlight == inQuery + catNew + catConnected

\* the connections open at this moment, in every pool
OpenConnections == inQuery + idle + catConnected

\* ENGINE.connect() of a query tool: an idle connection of the pool, else a
\* new one while fewer than pool_size + max_overflow are out; else the
\* caller waits
CheckOut ==
    /\ InFlight < MaxCallers
    /\ IF idle > 0 THEN idle' = idle - 1 /\ inQuery' = inQuery + 1
       ELSE /\ inQuery < PoolSize + MaxOverflow
            /\ inQuery' = inQuery + 1 /\ idle' = idle
    /\ UNCHANGED <<catNew, catConnected, pools, PoolOthers>>

\* the with block of a query tool ends: the connection goes back to the
\* pool, which keeps pool_size of them and closes the others
CheckIn ==
    /\ inQuery > 0
    /\ inQuery' = inQuery - 1
    /\ idle' = IF idle < PoolSize THEN idle + 1 ELSE idle
    /\ UNCHANGED <<catNew, catConnected, pools, PoolOthers>>

\* get_db_catalog (tools.py lines 129-134) calls export_db_catalog, whose
\* line 298 is create_engine(url, pool_pre_ping=True)
CreateEngine ==
    /\ InFlight < MaxCallers
    /\ pools - 1 < MaxCatalogCalls
    /\ pools' = pools + 1
    /\ catNew' = catNew + 1
    /\ UNCHANGED <<inQuery, idle, catConnected, PoolOthers>>

\* the first connection of an export (lines 47, 304-312): opened in the
\* export's own pool, where it stays open for the rest of the call
CatalogConnects ==
    /\ catNew > 0
    /\ catNew' = catNew - 1
    /\ catConnected' = catConnected + 1
    /\ UNCHANGED <<inQuery, idle, pools, PoolOthers>>

\* line 341: the export returns and its engine is dropped
CatalogReturns ==
    /\ catConnected > 0
    /\ catConnected' = catConnected - 1
    /\ UNCHANGED <<inQuery, idle, catNew, pools, PoolOthers>>

PoolNext == CheckOut \/ CheckIn \/ CreateEngine \/ CatalogConnects \/ CatalogReturns

SpecPool == PoolInit /\ [][PoolNext]_vars

\* C16: the connections of get_db_catalog and of the query tools come from
\* one pool: calls, repeated or at the same time, make no other pool, and
\* never more than pool_size + max_overflow connections are open at once.
C16_OneBoundedPool ==
    /\ pools = 1
    /\ OpenConnections <= PoolSize + MaxOverflow

\* C17: the allow-list check never rejects a text whose every FROM and JOIN
\* base table name is on the allow-list, whatever the letter case of the
\* identifiers of the text and of the entries of the allow-list.  (Stated for
\* identifiers written without quotes; quoting is the matter of C7.)
C17_AllowedInAnyCaseNotRejected ==
    (/\ tool = "db_query" /\ allowed # {}
     /\ \A i \in 1..Len(sql) : sql[i] \notin QuoteChars
     /\ Offending(sql, allowed) = {})
        => result.err # "table_not_allowed"

====
